---- MODULE Spec2Model ----
(***************************************************************************)
(* Adaptive Routing & Learning subsystem of Gemini Nexus:                  *)
(*   - AdaptiveCortex      (src/services/adaptiveCortex.ts)                *)
(*   - DynamicOrchestrator (src/services/dynamicOrchestrator.ts)           *)
(*   - SwarmExecutor       (src/services/swarmExecutor.ts)                 *)
(*                                                                         *)
(* Numbers.  JavaScript numbers that carry fractions (weights, rates,      *)
(* qualities, entropies) are held as fixed-point integers in units of      *)
(* 1/Scale; a division rounds down.  Token counts, lengths and counters    *)
(* are plain integers.  Every product stays below 2^31.                    *)
(*                                                                         *)
(* Objects.  CortexWeights objects live in a heap: exportWeights makes a   *)
(* shallow copy (a new top-level object that shares the nested objects),   *)
(* importWeights stores the reference it is given.                         *)
(***************************************************************************)
EXTENDS Integers, Sequences, FiniteSets, TLC

Scale == 100 * 100

\* the decimal literal n/d as a fixed-point number
Fix(n, d) == (n * Scale) \div d

Min(a, b) == IF a < b THEN a ELSE b

Max(a, b) == IF a > b THEN a ELSE b

\* the sum of s[lo..hi], by halves
RECURSIVE SumRange(_, _, _)
SumRange(s, lo, hi) ==
  IF lo > hi THEN 0
  ELSE IF lo = hi THEN s[lo]
  ELSE LET mid == (lo + hi) \div 2
       IN SumRange(s, lo, mid) + SumRange(s, mid + 1, hi)

SeqSum(s) == SumRange(s, 1, Len(s))

\* ---------------------------------------------------------------- bounds

\* recordExperience calls in one behaviour
MaxCalls == 210

\* the workload arrives in bursts: a new kind of experience may start only
\* at buffer positions that are a multiple of BurstLen (one kind per batch)
BurstLen == 100

\* CortexWeights objects ever allocated (the constructor's, exports, loads)
MaxObjects == 2

\* recordExperience calls in one behaviour of the sustained workload
MaxSustained == 800

\* ------------------------------------------------------------------ types

\* enum AgentCapability, in declaration order (Object.values)
AgentCapabilityValues == <<"RESEARCH", "ANALYSIS", "CREATIVE", "CODING", "FAST_TASK">>

AgentCapability == {AgentCapabilityValues[i] : i \in 1..Len(AgentCapabilityValues)}

\* ------------------------------------------------ AdaptiveCortex: fields

maxBufferSize == 1000

updateFrequency == 100

\* learningRate = 0.05, in hundredths
learningRatePct == 5

BASE_BUDGET == 100

MAX_BUDGET == 32000

VARIABLES
  topObjs,          \* heap of CortexWeights objects: nested ref, updateCount, confidence
  nestedObjs,       \* heap of their nested objects (entropyWeights, budgetMultipliers, ...)
  weights,          \* AdaptiveCortex.weights: a reference into topObjs
  snapshot,         \* the object the last exportWeights() returned to the caller (0: none)
  experienceBuffer, \* AdaptiveCortex.experienceBuffer
  calls,            \* number of recordExperience calls so far
  passes,           \* number of re-optimization passes so far
  lastOp,           \* the last state-changing Cortex operation
  batches,          \* the task ids of the batch of each pass so far, in pass order
  peerWeights       \* the weights of a second AdaptiveCortex instance (0: not constructed)

cortexVars == <<topObjs, nestedObjs, weights, snapshot, experienceBuffer, calls, passes, lastOp,
                batches, peerWeights>>

VARIABLES
  routingHistory, \* DynamicOrchestrator.routingHistory: capability -> RoutePerformance
  executionLog,   \* DynamicOrchestrator.executionLog
  learningRate,   \* DynamicOrchestrator.policy.learningRate, in tenths
  pc,             \* planExecution: "idle" (no call), "awaiting", "returned", "rejected";
                  \* "selected" after a direct selectNextAgent call
  maxAgents,      \* planExecution's argument
  budget,         \* planExecution's argument
  plan,           \* planExecution's local plan (the returned value once pc = "returned")
  context,        \* planExecution's local context
  stage,          \* planExecution's loop variable
  selection       \* the outcome of the selectNextAgent call being awaited

orchVars == <<routingHistory, executionLog, learningRate, pc, maxAgents, budget, plan, context, stage, selection>>

VARIABLES
  swarmPc,        \* SwarmExecutor.execute: "idle", "planning", "running", "resolved", "rejected"
  swarmPrompt,    \* execute's argument prompt
  agentTasks      \* the AgentTask objects of the execute call: capability, stageId, status

swarmVars == <<swarmPc, swarmPrompt, agentTasks>>

vars == <<cortexVars, orchVars, swarmVars>>

\* the nested objects of the defaults of initializeWeights
DefaultNested ==
  [ entropyWeights |->
      [length |-> Fix(35, 100), keyword |-> Fix(45, 100),
       history |-> Fix(15, 100), visual |-> Fix(5, 100)],
    budgetMultipliers |->
      [c \in AgentCapability |->
         CASE c = "FAST_TASK" -> 0
           [] c = "RESEARCH"  -> Fix(12, 10)
           [] c = "ANALYSIS"  -> Fix(15, 10)
           [] c = "CODING"    -> Fix(20, 10)
           [] c = "CREATIVE"  -> Fix(11, 10)],
    temperatureSettings |->
      [c \in AgentCapability |->
         CASE c = "FAST_TASK" -> Fix(3, 10)
           [] c = "RESEARCH"  -> Fix(7, 10)
           [] c = "ANALYSIS"  -> Fix(5, 10)
           [] c = "CODING"    -> Fix(4, 10)
           [] c = "CREATIVE"  -> Fix(9, 10)],
    routingPreferences |-> [c \in AgentCapability |-> Fix(5, 10)] ]

\* initializeWeights(undefined): the top-level object, its nested objects at ref n
initializeWeights(n) == [nested |-> n, updateCount |-> 0, confidence |-> Fix(3, 10)]

\* this.weights, read through the heap
W == topObjs[weights]

N == nestedObjs[W.nested]

clamp(value, min, max) == Max(min, Min(max, value))

getMaxBuffer(capability) ==
  CASE capability = "FAST_TASK" -> 0
    [] capability = "RESEARCH"  -> 4000
    [] capability = "ANALYSIS"  -> 8000
    [] capability = "CODING"    -> 16000
    [] capability = "CREATIVE"  -> 8000

\* -------------------------------------------- AdaptiveCortex: experiences

\* createExperience(task, predicted, actual); the timestamp is not kept
createExperience(task, predicted, actual) ==
  [ taskEntropy      |-> task.entropy,
    capability       |-> task.capability,
    promptLength     |-> task.descriptionLength,
    hasVisual        |-> task.visualInput,
    historyLength    |-> 0,
    predictedBudget  |-> predicted.budget,
    predictedSuccess |-> predicted.success,
    actualBudget     |-> actual.budget,
    actualSuccess    |-> actual.success,
    actualQuality    |-> actual.quality,
    actualLatency    |-> actual.latency,
    taskId           |-> task.id ]

\* the (task, predicted, actual) triples the execution layer reports; the task
\* id is filled in when the experience is recorded (WithTaskId)
ReportedTasks ==
  { << [entropy |-> Fix(5, 10), capability |-> "CODING", descriptionLength |-> 100,
        visualInput |-> FALSE, id |-> 0],
       [budget |-> 0, success |-> 0],
       [budget |-> 500, success |-> TRUE, quality |-> Fix(9, 10), latency |-> 3000] >>,
    << [entropy |-> 0, capability |-> "FAST_TASK", descriptionLength |-> 0,
        visualInput |-> FALSE, id |-> 0],
       [budget |-> 0, success |-> 0],
       [budget |-> 2000, success |-> TRUE, quality |-> Fix(8, 10), latency |-> 500] >> }

\* an experience recorded directly, with a conversation history behind it
DirectExperiences ==
  { [ taskEntropy |-> Fix(8, 10), capability |-> "CODING", promptLength |-> 500,
      hasVisual |-> TRUE, historyLength |-> 10, predictedBudget |-> 0,
      predictedSuccess |-> 0, actualBudget |-> 0, actualSuccess |-> FALSE,
      actualQuality |-> Fix(8, 10), actualLatency |-> 3000, taskId |-> 0 ] }

ExperienceInputs ==
  {createExperience(t[1], t[2], t[3]) : t \in ReportedTasks} \cup DirectExperiences

\* --------------------------------------- AdaptiveCortex: re-optimization

calculateEntropyWithWeights(exp, w) ==
  LET lengthScore  == Min((exp.promptLength * Scale) \div 500, Scale)
      keywordScore == Fix(5, 10)
      historyScore == Min((exp.historyLength * Scale) \div 10, Scale)
      visualScore  == IF exp.hasVisual THEN Scale ELSE 0
  IN (lengthScore * w.length + keywordScore * w.keyword
      + historyScore * w.history + visualScore * w.visual) \div Scale

normalizeEntropyWeights(w) ==
  LET sum == w.length + w.keyword + w.history + w.visual
  IN IF sum > 0
       THEN [length  |-> (w.length * Scale) \div sum,
             keyword |-> (w.keyword * Scale) \div sum,
             history |-> (w.history * Scale) \div sum,
             visual  |-> (w.visual * Scale) \div sum]
       ELSE w

\* optimizeEntropyWeights without its closing clamps
clampEntropyWeights_none(w) == w

\* the clamps that close optimizeEntropyWeights
clampEntropyWeights(w) ==
  [length  |-> clamp(w.length, Fix(1, 10), Fix(6, 10)),
   keyword |-> clamp(w.keyword, Fix(2, 10), Fix(6, 10)),
   history |-> clamp(w.history, Fix(5, 100), Fix(4, 10)),
   visual  |-> clamp(w.visual, 0, Fix(3, 10))]

optimizeEntropyWeights(experiences, w) ==
  LET n == Len(experiences)
      error(exp) == (IF exp.actualSuccess THEN Scale ELSE 0)
                      - calculateEntropyWithWeights(exp, w)
      lengthFeature(exp)  == Min((exp.promptLength * Scale) \div 500, Scale)
      keywordFeature(exp) == Fix(5, 10)
      historyFeature(exp) == Min((exp.historyLength * Scale) \div 10, Scale)
      visualFeature(exp)  == IF exp.hasVisual THEN Scale ELSE 0
      lengthGrad  == SeqSum([i \in 1..n |->
                       (error(experiences[i]) * lengthFeature(experiences[i])) \div Scale]) \div n
      keywordGrad == SeqSum([i \in 1..n |->
                       (error(experiences[i]) * keywordFeature(experiences[i])) \div Scale]) \div n
      historyGrad == SeqSum([i \in 1..n |->
                       (error(experiences[i]) * historyFeature(experiences[i])) \div Scale]) \div n
      visualGrad  == SeqSum([i \in 1..n |->
                       (error(experiences[i]) * visualFeature(experiences[i])) \div Scale]) \div n
      updated == [length  |-> w.length + (learningRatePct * lengthGrad) \div 100,
                  keyword |-> w.keyword + (learningRatePct * keywordGrad) \div 100,
                  history |-> w.history + (learningRatePct * historyGrad) \div 100,
                  visual  |-> w.visual + (learningRatePct * visualGrad) \div 100]
  IN clampEntropyWeights(normalizeEntropyWeights(updated))

\* the experiences of one capability, in buffer order (byCapability.get(c))
byCapability(experiences, c) == SelectSeq(experiences, LAMBDA e : e.capability = c)

successCount(experiences) == Len(SelectSeq(experiences, LAMBDA e : e.actualSuccess))

\* the low-success rule with 0.1 added in place of the factor 1.1
raiseMultiplier_add(m) == m + Fix(1, 10)

\* currentMultiplier * 1.1
raiseMultiplier(m) == (m * 11) \div 10

optimizeBudgetMultipliers(experiences, multipliers) ==
  [c \in AgentCapability |->
     LET group == byCapability(experiences, c)
         n == Len(group)
         \* avgSuccess < 0.7
         lowSuccess == successCount(group) * 10 < 7 * n
         \* avgQuality > 0.85
         highQuality == SeqSum([i \in 1..n |-> group[i].actualQuality]) * 100
                          > 85 * n * Scale
         \* avgEfficiency > 0.001, efficiencies in millionths
         efficient == SeqSum([i \in 1..n |->
                        (group[i].actualQuality * 100) \div Max(group[i].actualBudget, 1)])
                        > 1000 * n
         currentMultiplier == multipliers[c]
         adjusted == IF lowSuccess THEN raiseMultiplier(currentMultiplier)
                     ELSE IF highQuality /\ efficient THEN (currentMultiplier * 19) \div 20
                     ELSE currentMultiplier
     IN IF n = 0 THEN multipliers[c]
        ELSE clamp(adjusted, Fix(5, 10), Fix(30, 10))]

optimizeRoutingPreferences(experiences, preferences) ==
  [c \in AgentCapability |->
     LET group == byCapability(experiences, c)
         n == Len(group)
     IN IF n = 0 THEN preferences[c]
        \* currentPref * (1 - alpha) + successRate * alpha, alpha = 0.2
        ELSE (preferences[c] * 8 * n + 2 * successCount(group) * Scale) \div (10 * n)]

\* updateWeights() on the heap: the nested objects are mutated in place, then
\* the metadata of the top-level object
updateWeightsNested(experiences, nested) ==
  [nested EXCEPT
     !.entropyWeights = optimizeEntropyWeights(experiences, @),
     !.budgetMultipliers = optimizeBudgetMultipliers(experiences, @),
     !.routingPreferences = optimizeRoutingPreferences(experiences, @)]

\* updateWeights() with the confidence step subtracted instead of added
updateWeightsTop_minus(top) ==
  [top EXCEPT !.updateCount = @ + 1,
              !.confidence = Min(@ - Fix(1, 10), Scale)]

updateWeightsTop(top) ==
  [top EXCEPT !.updateCount = @ + 1,
              !.confidence = Min(@ + Fix(1, 10), Scale)]

\* ------------------------------------------- AdaptiveCortex: predictions

\* the nested objects of the CortexWeights object at reference ref
NestedOf(ref) == nestedObjs[topObjs[ref].nested]

\* predictBudget of the AdaptiveCortex instance whose this.weights is ref
predictBudgetOf(ref, entropy, capability, hasVisual) ==
  LET MAX_BUFFER == getMaxBuffer(capability)
      multiplier == NestedOf(ref).budgetMultipliers[capability]
      \* visualMultiplier, in halves
      visualHalves == IF hasVisual THEN 3 ELSE 2
      \* entropy * MAX_BUFFER * multiplier * visualMultiplier, floored
      extra == (((entropy * MAX_BUFFER) \div Scale) * multiplier * visualHalves)
                 \div (2 * Scale)
  IN Min(BASE_BUDGET + extra, MAX_BUDGET)

predictBudget(entropy, capability, hasVisual) ==
  predictBudgetOf(weights, entropy, capability, hasVisual)

\* predictSuccess of the AdaptiveCortex instance whose this.weights is ref
predictSuccessOf(ref, entropy, capability) ==
  LET baseSuccess == NestedOf(ref).routingPreferences[capability]
      entropyPenalty == (entropy * 2) \div 10
  IN Max(Fix(1, 10), Min(Scale, baseSuccess - entropyPenalty))

\* predictSuccess without the clamp to [0.1, 1.0]
predictSuccess_unclamped(entropy, capability) ==
  N.routingPreferences[capability] - (entropy * 2) \div 10

predictSuccess(entropy, capability) == predictSuccessOf(weights, entropy, capability)

getTemperatureOf(ref, capability) == NestedOf(ref).temperatureSettings[capability]

getTemperature(capability) == getTemperatureOf(weights, capability)

calculateConvergence == W.confidence

\* the entropies the callers ask about
Entropies == {0, Fix(5, 10), Scale}

\* the contents of a weights file saved by an earlier run (all values within
\* their documented ranges); loading it builds fresh objects
SavedWeights ==
  [ nested |->
      [DefaultNested EXCEPT
         !.routingPreferences = [c \in AgentCapability |->
                                   CASE c = "RESEARCH" -> 0
                                     [] c = "ANALYSIS" -> Scale
                                     [] OTHER -> Fix(5, 10)]],
    updateCount |-> 1,
    confidence |-> Fix(1, 10) ]

\* --------------------------------------------- AdaptiveCortex: operations

CortexInit ==
  /\ nestedObjs = <<DefaultNested>>
  /\ topObjs = <<initializeWeights(1)>>
  /\ weights = 1
  /\ snapshot = 0
  /\ experienceBuffer = << >>
  /\ calls = 0
  /\ passes = 0
  /\ lastOp = "init"
  /\ batches = << >>
  /\ peerWeights = 0

\* unshift in place of push: the new experience goes to the front
pushExperience_unshift(buffer, experience) == <<experience>> \o buffer

\* this.experienceBuffer.push(experience)
pushExperience(buffer, experience) == Append(buffer, experience)

\* the FIFO trim of recordExperience
trimBuffer(buffer) == IF Len(buffer) > maxBufferSize THEN Tail(buffer) ELSE buffer

\* a pass that needs more than updateFrequency experiences
updateWeightsRuns_late(buffer) == Len(buffer) > updateFrequency

\* updateWeights() runs the pass unless the buffer holds fewer than 10 experiences
updateWeightsRuns(buffer) == Len(buffer) >= 10

\* a pass that leaves the batch in the buffer
bufferAfterPass_keep(buffer) == buffer

\* the buffer updateWeights() leaves behind after a pass
bufferAfterPass(buffer) == << >>

\* the workload: within a burst the execution layer reports the same experience
InBurst(experience) ==
  IF Len(experienceBuffer) % BurstLen = 0
    THEN TRUE
    ELSE experience = [experienceBuffer[Len(experienceBuffer)] EXCEPT !.taskId = 0]

\* every reported task has its own id: the number of the call that records it
WithTaskId(experience) == [experience EXCEPT !.taskId = calls + 1]

\* the task ids of a buffer, in buffer order
taskIds(buffer) == [i \in 1..Len(buffer) |-> buffer[i].taskId]

\* recordExperience(experience): the whole synchronous call, the pass included
recordExperience(experience) ==
  LET buffer == trimBuffer(pushExperience(experienceBuffer, WithTaskId(experience)))
      pass == Len(buffer) >= updateFrequency /\ updateWeightsRuns(buffer)
  IN /\ calls' = calls + 1
     /\ IF pass
          THEN /\ nestedObjs' = [nestedObjs EXCEPT ![W.nested] = updateWeightsNested(buffer, @)]
               /\ topObjs' = [topObjs EXCEPT ![weights] = updateWeightsTop(@)]
               /\ experienceBuffer' = bufferAfterPass(buffer)
               /\ passes' = passes + 1
               /\ batches' = Append(batches, taskIds(buffer))
               /\ lastOp' = "pass"
          ELSE /\ experienceBuffer' = buffer
               /\ lastOp' = "record"
               /\ UNCHANGED <<nestedObjs, topObjs, passes, batches>>
     /\ UNCHANGED <<weights, snapshot, peerWeights>>

RecordExperience(experience) ==
  /\ calls < MaxCalls
  /\ InBurst(experience)
  /\ recordExperience(experience)
  /\ UNCHANGED <<orchVars, swarmVars>>

\* a long run of failing CODING tasks, reported one by one
SustainedFailure ==
  /\ calls < MaxSustained
  /\ \E e \in DirectExperiences : recordExperience(e)
  /\ UNCHANGED <<orchVars, swarmVars>>

\* an export that hands out the defaults: a copy whose nested objects are new
\* objects holding the initial values
exportWeights_defaults ==
  [top |-> [W EXCEPT !.nested = Len(nestedObjs) + 1], nested |-> <<DefaultNested>>]

\* exportWeights(): { ...this.weights }, the objects it allocates: a new
\* top-level object with the same fields, and no new nested object
exportWeights == [top |-> W, nested |-> << >>]

\* exportWeights(), the result handed to the caller
ExportWeights ==
  /\ Len(topObjs) < MaxObjects
  /\ topObjs' = Append(topObjs, exportWeights.top)
  /\ nestedObjs' = nestedObjs \o exportWeights.nested
  /\ snapshot' = Len(topObjs) + 1
  /\ lastOp' = "export"
  /\ UNCHANGED <<weights, experienceBuffer, calls, passes, batches, peerWeights>>
  /\ UNCHANGED <<orchVars, swarmVars>>

\* B.importWeights(A.exportWeights()) on a second, freshly constructed
\* instance B: B.weights is the exported object
PeerRoundTrip ==
  /\ Len(topObjs) < MaxObjects
  /\ topObjs' = Append(topObjs, exportWeights.top)
  /\ nestedObjs' = nestedObjs \o exportWeights.nested
  /\ peerWeights' = Len(topObjs) + 1
  /\ lastOp' = "export"
  /\ UNCHANGED <<weights, snapshot, experienceBuffer, calls, passes, batches>>
  /\ UNCHANGED <<orchVars, swarmVars>>

\* importWeights(w) with the object an earlier exportWeights() returned
ImportWeights ==
  /\ snapshot # 0
  /\ weights' = snapshot
  /\ lastOp' = "import"
  /\ UNCHANGED <<topObjs, nestedObjs, snapshot, experienceBuffer, calls, passes, batches,
                  peerWeights>>
  /\ UNCHANGED <<orchVars, swarmVars>>

\* importWeights(w) with an object deserialised from a saved file
ImportSavedWeights ==
  /\ Len(topObjs) < MaxObjects
  /\ nestedObjs' = Append(nestedObjs, SavedWeights.nested)
  /\ topObjs' = Append(topObjs, [nested |-> Len(nestedObjs) + 1,
                                 updateCount |-> SavedWeights.updateCount,
                                 confidence |-> SavedWeights.confidence])
  /\ weights' = Len(topObjs) + 1
  /\ lastOp' = "import"
  /\ UNCHANGED <<snapshot, experienceBuffer, calls, passes, batches, peerWeights>>
  /\ UNCHANGED <<orchVars, swarmVars>>

\* getMetrics()
getMetrics ==
  LET n == Len(experienceBuffer)
      errors == [i \in 1..n |->
                   LET predicted == predictSuccess(experienceBuffer[i].taskEntropy,
                                                   experienceBuffer[i].capability)
                       actual == IF experienceBuffer[i].actualSuccess THEN Scale ELSE 0
                   IN IF predicted >= actual THEN predicted - actual ELSE actual - predicted]
  IN IF n = 0
       THEN [totalExperiences |-> 0, avgPredictionError |-> 0, successRate |-> 0,
             avgQuality |-> 0, convergenceScore |-> 0]
       ELSE [totalExperiences |-> n,
             avgPredictionError |-> SeqSum(errors) \div n,
             successRate |-> (successCount(experienceBuffer) * Scale) \div n,
             avgQuality |-> SeqSum([i \in 1..n |-> experienceBuffer[i].actualQuality]) \div n,
             convergenceScore |-> calculateConvergence]

\* the read-only operations return a value and change nothing
PredictBudget ==
  /\ \A e \in Entropies, c \in AgentCapability, v \in BOOLEAN :
        predictBudget(e, c, v) \in 0..MAX_BUDGET
  /\ UNCHANGED vars

PredictSuccess ==
  /\ \A e \in Entropies, c \in AgentCapability : predictSuccess(e, c) \in Int
  /\ UNCHANGED vars

GetTemperature ==
  /\ \A c \in AgentCapability : getTemperature(c) \in Int
  /\ UNCHANGED vars

GetMetrics ==
  /\ getMetrics.totalExperiences = Len(experienceBuffer)
  /\ UNCHANGED vars

CreateExperience ==
  /\ \A t \in ReportedTasks : createExperience(t[1], t[2], t[3]).historyLength = 0
  /\ UNCHANGED vars

CortexNext ==
  \/ \E e \in ExperienceInputs : RecordExperience(e)
  \/ ExportWeights
  \/ ImportWeights
  \/ ImportSavedWeights
  \/ PredictBudget
  \/ PredictSuccess
  \/ GetTemperature
  \/ GetMetrics
  \/ CreateExperience

\* ============================================================ orchestrator

\* ------------------------------------------------------------ more bounds

\* updateFromExecution calls in one behaviour
MaxUpdates == 1

\* exploration picks (Math.random() < explorationRate) within one plan
MaxExplore == 1

\* the most stages a plan of the swarm's inputs has
MaxStages == 3

\* updateFromExecution calls in one behaviour of the long-running route
MaxRepeats == 45

\* the length of the warm-up of the long-running route
RunStart == 3

\* experiences recorded by other clients of the Cortex before the swarm run
MaxWarmUp == 98

\* updateFromExecution calls in one behaviour of the short history
MaxCounted == 4

\* updateFromExecution calls in one behaviour of the analytics history
MaxLogged == 3

\* --------------------------------------------- DynamicOrchestrator: fields

\* policy.utilityWeights, in tenths
utilityWeights == [historicalSuccess |-> 4, capabilityMatch |-> 4, costEfficiency |-> 2]

\* policy.learningRate = 0.2, in tenths
learningRateTenths == 2

\* the literal stage cap of shouldTerminate
STAGE_CAP == 5

initializeRouting ==
  [cap \in AgentCapability |->
     [successRate |-> Fix(5, 10), avgTokens |-> 1000, avgLatency |-> 5000, sampleCount |-> 0]]

\* a prompt is known by its length and by how many of the five keywords it contains
calculatePromptEntropy(prompt) ==
  LET length == Min((prompt.length * Scale) \div 500, Scale)
      keywordScore == prompt.keywords * Fix(15, 100)
  IN Min(length \div 2 + keywordScore, Scale)

\* this.routingHistory.get(capability) finds a record
hasPerformance(capability) == capability \in DOMAIN routingHistory

\* getEligibleCapabilities without the budget filter
getEligibleCapabilities_all(ctx) == ctx.availableAgents

getEligibleCapabilities(ctx) ==
  SelectSeq(ctx.availableAgents,
            LAMBDA cap : IF ~hasPerformance(cap) THEN TRUE
                         ELSE routingHistory[cap].avgTokens < ctx.budget)

\* the default estimates of estimateCost, for a capability without a record
defaultEstimates ==
  [c \in AgentCapability |->
     CASE c = "FAST_TASK" -> 100
       [] c = "RESEARCH"  -> 2000
       [] c = "ANALYSIS"  -> 4000
       [] c = "CODING"    -> 8000
       [] c = "CREATIVE"  -> 3000]

estimateCost(capability) ==
  IF hasPerformance(capability) THEN routingHistory[capability].avgTokens
  ELSE IF capability \in DOMAIN defaultEstimates THEN defaultEstimates[capability]
  ELSE "undefined"

computeCapabilityMatch(capability, ctx) ==
  IF ctx.entropy > Fix(7, 10)
    THEN IF capability \in {"ANALYSIS", "CODING"} THEN Scale ELSE Fix(3, 10)
  ELSE IF ctx.entropy > Fix(4, 10)
    THEN IF capability = "RESEARCH" THEN Fix(9, 10)
         ELSE IF capability = "ANALYSIS" THEN Fix(7, 10)
         ELSE Fix(5, 10)
  ELSE IF capability = "FAST_TASK" THEN Scale ELSE Fix(6, 10)

\* calculateUtility without the historical score
calculateUtility_nohistory(capability, ctx) ==
  IF ~hasPerformance(capability) THEN 5 * Scale
  ELSE computeCapabilityMatch(capability, ctx) * utilityWeights.capabilityMatch
         + ((1000 * Scale) \div (1000 + routingHistory[capability].avgTokens))
             * utilityWeights.costEfficiency

\* calculateUtility, in units of 1/(10 * Scale); 0.5 for a capability without a record
calculateUtility(capability, ctx) ==
  IF ~hasPerformance(capability) THEN 5 * Scale ELSE
  LET perf == routingHistory[capability]
      \* confidenceFactor, in twentieths
      confidenceFactor == Min(perf.sampleCount, 20)
      historicalScore == (perf.successRate * confidenceFactor
                           + Fix(5, 10) * (20 - confidenceFactor)) \div 20
      matchScore == computeCapabilityMatch(capability, ctx)
      efficiency == (1000 * Scale) \div (1000 + perf.avgTokens)
  IN historicalScore * utilityWeights.historicalSuccess
       + matchScore * utilityWeights.capabilityMatch
       + efficiency * utilityWeights.costEfficiency

\* scores.reduce((a, b) => a.utility > b.utility ? a : b), a the accumulator
RECURSIVE reduceBest(_, _, _)
reduceBest(a, rest, ctx) ==
  IF rest = << >> THEN a
  ELSE reduceBest(IF calculateUtility(a, ctx) > calculateUtility(Head(rest), ctx)
                    THEN a ELSE Head(rest),
                  Tail(rest), ctx)

\* what a call throws: candidates[...] is undefined in explore, reduce of an
\* empty array in exploit, options is undefined in generateRoleName for a
\* capability that is not one of the enum's
TypeError(branch) == [error |-> "TypeError", reasoning |-> branch]

\* generateRoleName(capability, context) returns a role label
hasRoleNames(capability) == capability \in AgentCapability

IsError(sel) == "error" \in DOMAIN sel

\* explore(candidates, context) when Math.random() picked index i; the role label
\* is not kept
explore(candidates, i) ==
  IF candidates = << >> \/ ~hasRoleNames(candidates[i]) THEN TypeError("Exploration")
  ELSE [capability |-> candidates[i], confidence |-> Fix(5, 10),
        estimatedCost |-> estimateCost(candidates[i]), reasoning |-> "Exploration"]

exploit(candidates, ctx) ==
  IF candidates = << >> THEN TypeError("Exploitation")
  ELSE LET best == reduceBest(Head(candidates), Tail(candidates), ctx)
       IN IF ~hasRoleNames(best) \/ ~hasPerformance(best) THEN TypeError("Exploitation") ELSE
          [capability |-> best, confidence |-> routingHistory[best].successRate,
           estimatedCost |-> estimateCost(best), reasoning |-> "Exploitation"]

\* the possible outcomes of selectNextAgent(context): Math.random() decides the
\* branch and the explored index; explored tells how often the plan explored so far
selectNextAgent(ctx, explored) ==
  LET candidates == getEligibleCapabilities(ctx)
  IN {exploit(candidates, ctx)}
       \cup IF explored < MaxExplore
              THEN {explore(candidates, i) : i \in 1..Max(Len(candidates), 1)}
              ELSE {}

\* Number.prototype.toString(), for a non-negative integer
RECURSIVE toString(_)
toString(n) ==
  LET digits == <<"0", "1", "2", "3", "4", "5", "6", "7", "8", "9">>
  IN IF n < 10 THEN digits[n + 1] ELSE toString(n \div 10) \o digits[(n % 10) + 1]

\* identifyDependencies naming the first stage instead of the last
identifyDependencies_first(stages) ==
  IF Len(stages) = 0 THEN << >> ELSE <<toString(stages[1].stageId)>>

\* identifyDependencies: the id of the last stage so far, as a string
identifyDependencies(stages) ==
  IF Len(stages) = 0 THEN << >> ELSE <<toString(stages[Len(stages)].stageId)>>

shouldTerminate(ctx, p) ==
  \/ p.estimatedCost * 10 >= ctx.budget * 9
  \/ Len(p.stages) >= STAGE_CAP
  \/ ctx.entropy < Fix(3, 10) /\ Len(p.stages) >= 1

\* projectNextContext with the cost added to the remaining budget
projectNextContext_plus(current, sel) ==
  [current EXCEPT !.budget = @ + sel.estimatedCost, !.historyLength = @ + 1]

\* projectNextContext that leaves the remaining budget as it is
projectNextContext_keep(current, sel) == [current EXCEPT !.historyLength = @ + 1]

projectNextContext(current, sel) ==
  [current EXCEPT !.budget = @ - sel.estimatedCost, !.historyLength = @ + 1]

\* a fallback that retries the primary capability
selectFallback_same(primary) == primary

selectFallback(primary) ==
  CASE primary = "FAST_TASK" -> "RESEARCH"
    [] primary = "RESEARCH"  -> "ANALYSIS"
    [] primary = "ANALYSIS"  -> "CODING"
    [] primary = "CODING"    -> "ANALYSIS"
    [] primary = "CREATIVE"  -> "ANALYSIS"

generateFallbacks(p) ==
  [i \in 1..Len(p.stages) |->
     [stageId |-> p.stages[i].stageId,
      primaryAgent |-> p.stages[i].agent.capability,
      fallbackAgent |-> selectFallback(p.stages[i].agent.capability),
      maxRetries |-> 2]]

\* the loop condition off by one: stage <= maxAgents
loopContinues_inclusive(stg, agents) == stg <= agents

\* the loop condition of planExecution: stage < maxAgents
loopContinues(stg, agents) == stg < agents

\* ----------------------------------------- DynamicOrchestrator: operations

EmptyPlan == [stages |-> << >>, fallbackStrategies |-> << >>, estimatedCost |-> 0]

NoContext == [entropy |-> 0, historyLength |-> 0, availableAgents |-> << >>, budget |-> 0]

NoSelection == [reasoning |-> "none"]

SwarmInit ==
  /\ swarmPc = "idle"
  /\ swarmPrompt = [length |-> 0, keywords |-> 0]
  /\ agentTasks = << >>

\* no report logged and no planExecution or selectNextAgent call under way
OrchIdle ==
  /\ executionLog = << >>
  /\ pc = "idle"
  /\ maxAgents = 0
  /\ budget = 0
  /\ plan = EmptyPlan
  /\ context = NoContext
  /\ stage = 0
  /\ selection = NoSelection

OrchStart == routingHistory = initializeRouting /\ OrchIdle

\* new DynamicOrchestrator(): the default policy
OrchInit == OrchStart /\ learningRate = learningRateTenths

\* the routing tables of the selection scenarios: ANALYSIS with a history,
\* the other four capabilities at the defaults of initializeRouting
ScenarioRoutings ==
  {[initializeRouting EXCEPT !["ANALYSIS"] =
      [successRate |-> r, avgTokens |-> t, avgLatency |-> 5000, sampleCount |-> n]] :
     r \in {Fix(5, 10), Fix(7, 10), Fix(9, 10)}, n \in {0, 10, 50}, t \in {1000, 4000}}

\* an orchestrator whose routing table is one of the scenarios'
ScenarioInit ==
  /\ CortexInit
  /\ SwarmInit
  /\ OrchIdle
  /\ routingHistory \in ScenarioRoutings
  /\ learningRate = learningRateTenths

\* the contexts of the selection scenarios: all five capabilities available,
\* in the enum's order or reversed
ScenarioContexts ==
  {[entropy |-> e, historyLength |-> 0, availableAgents |-> agents, budget |-> tokens] :
     e \in {Fix(2, 10), Fix(4, 10), Fix(5, 10), Fix(7, 10), Fix(8, 10)},
     agents \in {AgentCapabilityValues,
                 <<"FAST_TASK", "CODING", "CREATIVE", "ANALYSIS", "RESEARCH">>},
     tokens \in {5000, 100000}}

\* the learning rates of new DynamicOrchestrator({learningRate}), in tenths
LearningRates == {1, 2, 5, 10}

\* new DynamicOrchestrator({learningRate}) next to a fresh Cortex
LearnInit == CortexInit /\ SwarmInit /\ OrchStart /\ learningRate \in LearningRates

\* the prompts, agent limits and budgets planExecution is called with
Prompts == {[length |-> 20, keywords |-> 0], [length |-> 500, keywords |-> 1],
            [length |-> 500, keywords |-> 2]}

MaxAgentsInputs == {0, 2, 6}

Budgets == {900, 1100, 5000, 100000}

\* how many stages of a plan, the awaited selection included, explored
explorations(p, sel) ==
  Len(SelectSeq(p.stages, LAMBDA s : s.agent.reasoning = "Exploration"))
    + (IF sel.reasoning = "Exploration" THEN 1 ELSE 0)

\* planExecution up to its first await: the plan and the context are set up and,
\* if the loop is entered, selectNextAgent is called
planExecution(prompt, agents, tokens) ==
  LET ctx == [entropy |-> calculatePromptEntropy(prompt), historyLength |-> 0,
              availableAgents |-> AgentCapabilityValues, budget |-> tokens]
  IN /\ pc = "idle"
     /\ maxAgents' = agents
     /\ budget' = tokens
     /\ context' = ctx
     /\ stage' = 0
     /\ IF loopContinues(0, agents)
          THEN /\ \E sel \in selectNextAgent(ctx, 0) : selection' = sel
               /\ plan' = EmptyPlan
               /\ pc' = "awaiting"
          ELSE /\ selection' = NoSelection
               /\ plan' = [EmptyPlan EXCEPT !.fallbackStrategies = generateFallbacks(EmptyPlan)]
               /\ pc' = "returned"
     /\ UNCHANGED <<routingHistory, executionLog, learningRate>>

\* planExecution called by a client of the orchestrator
PlanExecution(prompt, agents, tokens) ==
  /\ planExecution(prompt, agents, tokens)
  /\ UNCHANGED <<cortexVars, swarmVars>>

\* planExecution from one await to the next (or to its end): the awaited call
\* threw, or its selection becomes a stage and the loop goes on or ends
PlanResume ==
  /\ pc = "awaiting"
  /\ IF IsError(selection)
       THEN /\ pc' = "rejected"
            /\ UNCHANGED <<plan, context, stage, selection>>
       ELSE LET pushed == [plan EXCEPT
                             !.stages = Append(@, [stageId |-> stage,
                                                   agent |-> selection,
                                                   dependencies |-> identifyDependencies(plan.stages),
                                                   condition |-> "ALWAYS"]),
                             !.estimatedCost = @ + selection.estimatedCost]
                next == projectNextContext(context, selection)
            IN IF shouldTerminate(context, pushed) \/ ~loopContinues(stage + 1, maxAgents)
                 THEN /\ plan' = [pushed EXCEPT !.fallbackStrategies = generateFallbacks(pushed)]
                      /\ pc' = "returned"
                      /\ context' = IF shouldTerminate(context, pushed) THEN context ELSE next
                      /\ stage' = IF shouldTerminate(context, pushed) THEN stage ELSE stage + 1
                      /\ selection' = NoSelection
                 ELSE /\ plan' = pushed
                      /\ context' = next
                      /\ stage' = stage + 1
                      /\ \E sel \in selectNextAgent(next, explorations(pushed, NoSelection)) :
                            selection' = sel
                      /\ pc' = "awaiting"
  /\ UNCHANGED <<routingHistory, executionLog, learningRate, maxAgents, budget>>
  /\ UNCHANGED <<cortexVars, swarmVars>>

\* the contexts selectNextAgent is called with directly; "PLANNER" is a
\* capability value that is not one of the enum's and has no record
UnknownCapability == "PLANNER"

SelectionContexts ==
  {[entropy |-> Fix(8, 10), historyLength |-> 0, availableAgents |-> agents, budget |-> 100000] :
     agents \in {AgentCapabilityValues,
                 <<"RESEARCH", UnknownCapability>>,
                 <<UnknownCapability, "ANALYSIS">>}}

\* selectNextAgent(context) called by a client; the outcome is kept in selection
SelectNextAgent(ctx) ==
  /\ pc = "idle"
  /\ context' = ctx
  /\ \E sel \in selectNextAgent(ctx, 0) : selection' = sel
  /\ pc' = "selected"
  /\ UNCHANGED <<routingHistory, executionLog, learningRate, maxAgents, budget, plan, stage>>
  /\ UNCHANGED <<cortexVars, swarmVars>>

\* the caller of planExecution or selectNextAgent takes the result (or the
\* rejection); the locals of the call are gone
PlanSettled ==
  /\ pc \in {"returned", "rejected", "selected"}
  /\ pc' = "idle"
  /\ maxAgents' = 0
  /\ budget' = 0
  /\ plan' = EmptyPlan
  /\ context' = NoContext
  /\ stage' = 0
  /\ selection' = NoSelection
  /\ UNCHANGED <<routingHistory, executionLog, learningRate>>
  /\ UNCHANGED <<cortexVars, swarmVars>>

\* the selections and results the execution layer reports
ReportedSelections ==
  {[capability |-> c, confidence |-> Fix(8, 10), estimatedCost |-> 5000, reasoning |-> "Test"] :
     c \in AgentCapability \cup {UnknownCapability}}

ReportedResults ==
  {[success |-> TRUE, tokensUsed |-> 250, latencyMs |-> 3000, quality |-> Fix(9, 10)],
   [success |-> FALSE, tokensUsed |-> 6000, latencyMs |-> 3000, quality |-> Fix(2, 10)]}

\* the moving average with the sample subtracted instead of added
ema_minus(value, sample) ==
  (value * (10 - learningRate) - sample * learningRate) \div 10

\* the exponential moving average value * (1 - alpha) + sample * alpha, rounded
\* to the nearest unit as the floating-point operations round to the nearest
\* representable number
ema(value, sample) == (value * (10 - learningRate) + sample * learningRate + 5) \div 10

\* the record update without the increment of the sample counter
updatePerformance_nocount(perf, result) ==
  [successRate |-> ema(perf.successRate, IF result.success THEN Scale ELSE 0),
   avgTokens |-> ema(perf.avgTokens, result.tokensUsed),
   avgLatency |-> ema(perf.avgLatency, result.latencyMs),
   sampleCount |-> perf.sampleCount]

\* the update of one RoutePerformance record (lastUpdated is not kept)
updatePerformance(perf, result) ==
  [successRate |-> ema(perf.successRate, IF result.success THEN Scale ELSE 0),
   avgTokens |-> ema(perf.avgTokens, result.tokensUsed),
   avgLatency |-> ema(perf.avgLatency, result.latencyMs),
   sampleCount |-> perf.sampleCount + 1]

\* an update that keeps no record of the execution
logExecution_none(log, sel, result) == log

\* this.executionLog.push({timestamp, selection, result, contextEntropy})
logExecution(log, sel, result) == Append(log, [selection |-> sel, result |-> result])

\* updateFromExecution(selection, result): nothing happens for a capability
\* without a record
updateFromExecution(sel, result) ==
  /\ IF hasPerformance(sel.capability)
       THEN /\ routingHistory' =
                 [routingHistory EXCEPT ![sel.capability] = updatePerformance(@, result)]
            /\ executionLog' = logExecution(executionLog, sel, result)
       ELSE UNCHANGED <<routingHistory, executionLog>>
  /\ UNCHANGED <<learningRate, pc, maxAgents, budget, plan, context, stage, selection>>

UpdateFromExecution(sel, result) ==
  /\ Len(executionLog) < MaxUpdates
  /\ updateFromExecution(sel, result)
  /\ UNCHANGED <<cortexVars, swarmVars>>

\* the workload of a long-running route: after a warm-up of RunStart reports of
\* one kind, the execution layer keeps reporting one selection with one result
InRun(sel, result) ==
  IF Len(executionLog) \in {0, RunStart} THEN TRUE
  ELSE executionLog[Len(executionLog)] = [selection |-> sel, result |-> result]

RepeatedUpdate(sel, result) ==
  /\ Len(executionLog) < MaxRepeats
  /\ InRun(sel, result)
  /\ updateFromExecution(sel, result)
  /\ UNCHANGED <<cortexVars, swarmVars>>

\* calculateActualExplorationRate(): the share of the logged selections whose
\* reasoning includes 'Exploration'
calculateActualExplorationRate ==
  IF Len(executionLog) = 0 THEN 0
  ELSE (Len(SelectSeq(executionLog, LAMBDA l : l.selection.reasoning = "Exploration"))
          * Scale) \div Len(executionLog)

\* getRoutingAnalytics()
getRoutingAnalytics ==
  [capabilityPerformance |-> [c \in DOMAIN routingHistory |-> routingHistory[c]],
   totalExecutions |-> Len(executionLog),
   explorationRate |-> calculateActualExplorationRate,
   avgUtilityScore |->
     IF Len(executionLog) = 0 THEN 0
     ELSE (Len(SelectSeq(executionLog, LAMBDA l : l.result.success)) * Scale)
            \div Len(executionLog)]

\* getRoutingAnalytics() returns a value and changes nothing
GetRoutingAnalytics ==
  /\ getRoutingAnalytics.totalExecutions = Len(executionLog)
  /\ UNCHANGED vars

OrchNext ==
  \/ \E prompt \in Prompts, agents \in MaxAgentsInputs, tokens \in Budgets :
        PlanExecution(prompt, agents, tokens)
  \/ PlanResume
  \/ PlanSettled
  \/ \E ctx \in SelectionContexts : SelectNextAgent(ctx)
  \/ \E sel \in ReportedSelections, result \in ReportedResults :
        UpdateFromExecution(sel, result)
  \/ GetRoutingAnalytics

\* the orchestrator under a long run of reports
LearnNext ==
  \E sel \in ReportedSelections, result \in ReportedResults : RepeatedUpdate(sel, result)

\* ========================================================= specifications

\* ========================================================== swarm executor

\* the prompts and agent limits SwarmExecutor.execute is called with
SwarmPrompts == {[length |-> 20, keywords |-> 0], [length |-> 500, keywords |-> 2]}

SwarmAgents == {0, 1, 3}

\* planExecution's default budget, which execute leaves in place
DEFAULT_BUDGET == 100000

\* the outcomes of executeAgentTask after the model call: no critique, a
\* critique, an exception
TaskOutcomes == {"COMPLETED", "HEALING", "FAILED"}

\* the length of the output of a model call that returned
OutputLength == 1200

\* another client of the same Cortex records experiences before the run
WarmUp ==
  /\ swarmPc = "idle"
  /\ calls < MaxWarmUp
  /\ \E e \in DirectExperiences : recordExperience(e)
  /\ UNCHANGED <<orchVars, swarmVars>>

\* execute(prompt, maxAgents) up to its first await: planExecution is called
\* on the executor's own orchestrator with the default budget; a run starts on
\* a Cortex that is fresh or has taken the whole warm-up
SwarmExecute(prompt, agents) ==
  /\ swarmPc = "idle"
  /\ calls \in {0, MaxWarmUp}
  /\ planExecution(prompt, agents, DEFAULT_BUDGET)
  /\ swarmPc' = "planning"
  /\ swarmPrompt' = prompt
  /\ agentTasks' = << >>
  /\ UNCHANGED cortexVars

\* the AgentTask execute builds from a stage, after executeAgentTask has run
\* up to its await of the model call
workingTask(st, prompt) ==
  [capability |-> st.agent.capability, stageId |-> st.stageId,
   descriptionLength |-> prompt.length, dependencies |-> st.dependencies,
   status |-> "WORKING"]

\* execute after planExecution has settled: every stage becomes a task and
\* every executeAgentTask runs up to its await of the model call (status
\* WORKING, getTemperature read); a rejected plan rejects execute
SwarmStart ==
  /\ swarmPc = "planning"
  /\ pc \in {"returned", "rejected"}
  /\ IF pc = "returned"
       THEN /\ agentTasks' = [i \in 1..Len(plan.stages) |->
                                workingTask(plan.stages[i], swarmPrompt)]
            /\ \A i \in 1..Len(plan.stages) : getTemperature(plan.stages[i].agent.capability) \in Int
            /\ swarmPc' = "running"
       ELSE /\ agentTasks' = << >>
            /\ swarmPc' = "rejected"
  /\ pc' = "idle"
  /\ maxAgents' = 0
  /\ budget' = 0
  /\ plan' = EmptyPlan
  /\ context' = NoContext
  /\ stage' = 0
  /\ selection' = NoSelection
  /\ UNCHANGED <<routingHistory, executionLog, learningRate>>
  /\ UNCHANGED <<cortexVars, swarmPrompt>>

\* the experience executeAgentTask creates for a task that ended with outcome
taskExperience(task, outcome) ==
  createExperience(
    [entropy |-> 0, capability |-> task.capability,
     descriptionLength |-> task.descriptionLength, visualInput |-> FALSE, id |-> 0],
    [budget |-> 0, success |-> 0],
    [budget |-> IF outcome = "FAILED" THEN 0 ELSE OutputLength,
     success |-> outcome = "COMPLETED", quality |-> Fix(8, 10), latency |-> 3000])

\* executeAgentTask from the end of its await to its return: the status is
\* set, the experience created and recorded; nothing of this awaits, so no
\* other task's continuation runs in between
TaskCompletes(i, outcome) ==
  /\ swarmPc = "running"
  /\ i \in 1..Len(agentTasks)
  /\ agentTasks[i].status = "WORKING"
  /\ agentTasks' = [agentTasks EXCEPT ![i].status = outcome]
  /\ recordExperience(taskExperience(agentTasks[i], outcome))
  /\ UNCHANGED <<orchVars, swarmPc, swarmPrompt>>

\* Promise.all has every task's result: execute synthesizes and returns
SwarmDone ==
  /\ swarmPc = "running"
  /\ \A i \in 1..Len(agentTasks) : agentTasks[i].status # "WORKING"
  /\ swarmPc' = "resolved"
  /\ UNCHANGED <<cortexVars, orchVars, swarmPrompt, agentTasks>>

SwarmNext ==
  \/ WarmUp
  \/ \E prompt \in SwarmPrompts, agents \in SwarmAgents : SwarmExecute(prompt, agents)
  \/ PlanResume
  \/ SwarmStart
  \/ \E i \in 1..MaxStages, outcome \in TaskOutcomes : TaskCompletes(i, outcome)
  \/ SwarmDone

Init == CortexInit /\ OrchInit /\ SwarmInit

Next == CortexNext \/ OrchNext \/ SwarmNext

Spec == Init /\ [][Next]_vars

\* the Learning Cortex on its own
CortexSpec == Init /\ [][CortexNext]_vars

\* the Orchestration Engine on its own
OrchSpec == Init /\ [][OrchNext]_vars

\* an orchestrator of some learning rate under a long run of reports
LearnSpec == LearnInit /\ [][LearnNext]_vars

\* a report of the short history
CountedUpdate(sel, result) ==
  /\ Len(executionLog) < MaxCounted
  /\ InRun(sel, result)
  /\ updateFromExecution(sel, result)
  /\ UNCHANGED <<cortexVars, swarmVars>>

\* the orchestrator planning, selecting and reporting analytics between the
\* reports of a short history
FrameNext ==
  \/ \E sel \in ReportedSelections, result \in ReportedResults : CountedUpdate(sel, result)
  \/ PlanExecution([length |-> 500, keywords |-> 2], 2, 5000)
  \/ PlanResume
  \/ PlanSettled
  \/ \E ctx \in SelectionContexts : SelectNextAgent(ctx)
  \/ GetRoutingAnalytics

FrameSpec == Init /\ [][FrameNext]_vars

\* the selections the execution layer reports back as it got them from
\* explore, next to those of ReportedSelections
ExploredSelections ==
  {[capability |-> c, confidence |-> Fix(5, 10), estimatedCost |-> 1000,
    reasoning |-> "Exploration"] : c \in {"RESEARCH", "CODING"}}

\* a report of a selection of either kind
LoggedUpdate(sel, result) ==
  /\ Len(executionLog) < MaxLogged
  /\ updateFromExecution(sel, result)
  /\ UNCHANGED <<cortexVars, swarmVars>>

\* reports and analytics calls
AnalyticsNext ==
  \/ \E sel \in ReportedSelections \cup ExploredSelections, result \in ReportedResults :
        LoggedUpdate(sel, result)
  \/ GetRoutingAnalytics

AnalyticsSpec == Init /\ [][AnalyticsNext]_vars

\* direct selections over the scenarios' routing tables
ScenarioNext ==
  \/ \E ctx \in ScenarioContexts : SelectNextAgent(ctx)
  \/ PlanSettled

ScenarioSpec == ScenarioInit /\ [][ScenarioNext]_vars

\* one run of a SwarmExecutor on a Cortex it shares with another client
SwarmSpec == Init /\ [][SwarmNext]_vars

\* the Cortex with a second instance that loads its exports
PeerNext ==
  \/ \E e \in ExperienceInputs : RecordExperience(e)
  \/ ImportSavedWeights
  \/ PeerRoundTrip

PeerSpec == Init /\ [][PeerNext]_vars

\* the Cortex under a sustained run of failing CODING tasks
SustainedSpec == Init /\ [][SustainedFailure]_vars

\* ================================================================= claims

entropyWeightSum == N.entropyWeights.length + N.entropyWeights.keyword
                      + N.entropyWeights.history + N.entropyWeights.visual

\* C1: immediately after every re-optimization pass the four entropy weights
\* sum to 1.0 (up to the rounding of the four divisions of the normalisation).
C1_WeightsSumToOne ==
  lastOp = "pass" => (entropyWeightSum >= Scale - 4 /\ entropyWeightSum <= Scale + 4)

\* C2: predictBudget(entropy, FAST_TASK, hasVisual) returns 0 for every entropy
\* and visual flag, in every reachable cortex state.
C2_FastTaskBudgetZero ==
  \A e \in Entropies, v \in BOOLEAN : predictBudget(e, "FAST_TASK", v) = 0

\* C3: an empty eligible set never makes planExecution reject: plan
\* construction ends early and the stages built so far are returned.
C3_EmptyEligibleEndsPlan == pc # "rejected"

\* a step of planExecution
PlanStep ==
  \/ PlanResume
  \/ \E prompt \in Prompts, agents \in MaxAgentsInputs, tokens \in Budgets :
        PlanExecution(prompt, agents, tokens)

\* the first eligible capability of maximal utility
firstBest(ctx) ==
  LET candidates == getEligibleCapabilities(ctx)
      best == CHOOSE i \in 1..Len(candidates) :
                /\ \A j \in 1..Len(candidates) :
                      calculateUtility(candidates[i], ctx) >= calculateUtility(candidates[j], ctx)
                /\ \A j \in 1..(i - 1) :
                      calculateUtility(candidates[j], ctx) < calculateUtility(candidates[i], ctx)
  IN candidates[best]

\* C4: on the exploit branch selectNextAgent returns a capability of maximal
\* utility among the eligible ones and, among several of maximal utility, the
\* first in the eligible order.
C4_ExploitFirstBest ==
  [][(PlanStep /\ pc' = "awaiting" /\ ~IsError(selection')
        /\ selection'.reasoning = "Exploitation")
      => selection'.capability = firstBest(context')]_vars

\* C5 (as claimed): over all public operations, importWeights included, the
\* confidence never decreases from one state to the next and never exceeds 1.0.
C5_ConfidenceNeverDecreases ==
  [][W'.confidence >= W.confidence /\ W'.confidence <= Scale]_vars

\* C5 (amended): every operation other than importWeights leaves the confidence
\* as it is or raises it, and the confidence never exceeds 1.0.
C5_ConfidenceMonotoneButImport ==
  /\ [][~(ImportWeights \/ ImportSavedWeights) => W'.confidence >= W.confidence]_vars
  /\ [](W.confidence <= Scale)

\* a pass has raised the confidence of an imported weights object
C5_Witness ==
  /\ lastOp = "pass"
  /\ weights # 1
  /\ W.confidence > SavedWeights.confidence

\* C6: in every reachable state, the initial one included, each of the five
\* budget multipliers lies in [0.5, 3.0].
C6_BudgetMultipliersInRange ==
  \A c \in AgentCapability :
     N.budgetMultipliers[c] >= Fix(5, 10) /\ N.budgetMultipliers[c] <= Fix(30, 10)

\* a buffer one experience over the cap, as an append to a full buffer leaves it
overfullBuffer == [i \in 1..(maxBufferSize + 1) |-> i]

\* C7: the experience buffer never holds more than 1000 experiences, and it
\* always holds the most recently recorded ones in arrival order (whatever
\* leaves it leaves from the front); the trim of a buffer one over the cap
\* drops the oldest experience and keeps the other 1000 in order.
C7_BufferBoundedFifo ==
  /\ Len(experienceBuffer) <= maxBufferSize
  /\ \A i \in 1..Len(experienceBuffer) :
        experienceBuffer[i].taskId = calls - Len(experienceBuffer) + i
  /\ trimBuffer(overfullBuffer) = [i \in 1..maxBufferSize |-> i + 1]

\* more than one batch has been recorded and the buffer is filling again
C7_Witness == calls > updateFrequency /\ Len(experienceBuffer) > 1

\* C8: a returned plan costs at most 0.9 * budget plus the cost of its final stage.
C8_CostWithinBudget ==
  (pc = "returned" /\ Len(plan.stages) >= 1)
    => plan.estimatedCost * 10
         <= 9 * budget + 10 * plan.stages[Len(plan.stages)].agent.estimatedCost

\* a returned plan whose cost is above 0.9 * budget: the final stage's cost is needed
C8_Witness ==
  /\ pc = "returned"
  /\ Len(plan.stages) >= 1
  /\ plan.estimatedCost * 10 > 9 * budget

\* the selectNextAgent calls planExecution has made so far
selectionsMade ==
  Len(plan.stages) + (IF pc \in {"awaiting", "rejected"} THEN 1 ELSE 0)

\* C9: a plan never has more than maxAgents stages and planExecution never
\* makes more than maxAgents selections; the call always ends: at every await
\* the loop variable equals the number of stages built and is below maxAgents
\* (each continuation builds one more stage or ends the call).
C9_BoundedPlanning ==
  /\ Len(plan.stages) <= maxAgents
  /\ selectionsMade <= maxAgents
  /\ pc = "awaiting" => /\ stage = Len(plan.stages)
                        /\ stage < maxAgents

\* a plan was returned with as many stages as maxAgents allows
C9_Witness == pc = "returned" /\ maxAgents > 0 /\ Len(plan.stages) = maxAgents

\* the three stop conditions as claimed, for a plan p built for arguments
\* (agents, tokens) from a prompt of entropy e
claimedStop(p, agents, tokens, e) ==
  \/ p.estimatedCost * 10 >= 9 * tokens
  \/ Len(p.stages) >= agents
  \/ e < Fix(3, 10) /\ Len(p.stages) >= 1

\* C10: planExecution stops adding stages exactly when, after a stage is added,
\* the cumulative cost is at least 90% of the budget it was called with, or the
\* stage count has reached maxAgents, or the entropy is below 0.3 with a stage
\* planned; otherwise it goes on to plan another stage.
C10_StopsExactlyWhen ==
  /\ (pc = "returned" /\ Len(plan.stages) >= 1)
       => claimedStop(plan, maxAgents, budget, context.entropy)
  /\ (pc = "awaiting" /\ Len(plan.stages) >= 1)
       => ~claimedStop(plan, maxAgents, budget, context.entropy)

\* C13: predictSuccess returns a value in [0.1, 1.0] for every entropy and
\* capability, in every reachable state, imported weights included.
C13_PredictSuccessInRange ==
  \A e \in Entropies, c \in AgentCapability :
     predictSuccess(e, c) >= Fix(1, 10) /\ predictSuccess(e, c) <= Scale

\* imported weights whose RESEARCH preference minus the penalty is below 0.1
C13_Witness ==
  /\ lastOp = "import"
  /\ N.routingPreferences["RESEARCH"] - (Scale * 2) \div 10 < Fix(1, 10)
  /\ predictSuccess(Scale, "RESEARCH") = Fix(1, 10)

\* the buffer holds 99 failed CODING experiences and the call being made is the
\* 100th of them and runs the pass
failedCodingPass ==
  /\ Len(experienceBuffer) = updateFrequency - 1
  /\ \A i \in 1..Len(experienceBuffer) :
        experienceBuffer[i].capability = "CODING" /\ ~experienceBuffer[i].actualSuccess
  /\ passes' = passes + 1

\* C16 (as claimed): a pass over 100 failed CODING experiences multiplies
\* budgetMultipliers[CODING] by 1.1, whatever its value before the pass.
C16_TimesOnePointOne ==
  [][failedCodingPass
       => N'.budgetMultipliers["CODING"] = (N.budgetMultipliers["CODING"] * 11) \div 10]_vars

\* C16 (amended): a pass over 100 failed CODING experiences sets
\* budgetMultipliers[CODING] to 1.1 times its value before the pass, clamped
\* to [0.5, 3.0].
C16_TimesOnePointOneClamped ==
  [][failedCodingPass
       => N'.budgetMultipliers["CODING"]
            = clamp((N.budgetMultipliers["CODING"] * 11) \div 10, Fix(5, 10), Fix(30, 10))]_vars

\* a pass has left the CODING multiplier at the upper end of its range
C16_Witness ==
  /\ lastOp = "pass"
  /\ passes >= 2
  /\ Len(batches[passes]) = updateFrequency
  /\ N.budgetMultipliers["CODING"] = Fix(30, 10)

\* C18: the convergenceScore of getMetrics is the confidence of the weights,
\* also when the buffer is empty.
C18_ConvergenceIsConfidence == getMetrics.convergenceScore = W.confidence

\* C12: right after B.importWeights(A.exportWeights()) on a fresh instance B,
\* B.predictBudget, B.predictSuccess and B.getTemperature return what A's
\* return, for every entropy, capability and visual flag.
C12_RoundTripSamePredictions ==
  [][PeerRoundTrip =>
       \A e \in Entropies, c \in AgentCapability :
          /\ \A v \in BOOLEAN :
                predictBudgetOf(peerWeights, e, c, v)' = predictBudget(e, c, v)'
          /\ predictSuccessOf(peerWeights, e, c)' = predictSuccess(e, c)'
          /\ getTemperatureOf(peerWeights, c)' = getTemperature(c)']_vars

\* B has loaded an export of A made after A re-optimized its weights
C12_Witness ==
  /\ peerWeights # 0
  /\ passes >= 1
  /\ lastOp = "export"
  /\ predictBudgetOf(peerWeights, Scale, "CODING", FALSE)
       # Min(BASE_BUDGET + (getMaxBuffer("CODING") * DefaultNested.budgetMultipliers["CODING"])
                             \div Scale, MAX_BUDGET)

\* C17: a capability without a RoutePerformance record never makes
\* selectNextAgent throw: whenever such a capability is among the available
\* agents of a direct selectNextAgent call that takes the exploit branch, the
\* call returns a selection.
C17_UnknownNeverThrows ==
  (pc = "selected" /\ selection.reasoning = "Exploitation"
     /\ \E i \in 1..Len(context.availableAgents) :
           ~hasPerformance(context.availableAgents[i]))
    => ~IsError(selection)

\* C20: no step lowers a sampleCount; updateFromExecution for a capability with
\* a record raises that record's sampleCount by exactly 1 and leaves the other
\* four records as they are, and for a capability without a record it changes
\* nothing; planExecution (each of its steps), selectNextAgent and
\* getRoutingAnalytics leave every record as it is.
C20_SampleCountFrame ==
  [][/\ \A c \in AgentCapability :
          routingHistory'[c].sampleCount >= routingHistory[c].sampleCount
     /\ \A sel \in ReportedSelections, result \in ReportedResults :
          updateFromExecution(sel, result) =>
            IF hasPerformance(sel.capability)
              THEN /\ routingHistory'[sel.capability].sampleCount
                        = routingHistory[sel.capability].sampleCount + 1
                   /\ \A c \in AgentCapability \ {sel.capability} :
                        routingHistory'[c] = routingHistory[c]
              ELSE routingHistory' = routingHistory
     /\ (PlanStep \/ PlanSettled \/ GetRoutingAnalytics
           \/ \E ctx \in SelectionContexts : SelectNextAgent(ctx))
          => routingHistory' = routingHistory]_vars

\* C20 happens: three reports for one capability and one for another have
\* been counted, and a plan built afterwards has been returned
C20_Witness ==
  /\ pc = "returned"
  /\ Len(executionLog) = 4
  /\ \E c, d \in AgentCapability :
        /\ c # d
        /\ routingHistory[c].sampleCount = 3
        /\ routingHistory[d].sampleCount = 1
        /\ \A o \in AgentCapability \ {c, d} : routingHistory[o].sampleCount = 0

\* a step that is updateFromExecution with success = true for capability c,
\* which has a record
successfulUpdate(c) ==
  \E sel \in ReportedSelections, result \in ReportedResults :
    /\ sel.capability = c
    /\ result.success
    /\ hasPerformance(c)
    /\ updateFromExecution(sel, result)

C15_ScenarioSelectsAnalysis ==
  (/\ pc = "selected"
   /\ selection.reasoning = "Exploitation"
   /\ context.entropy = Fix(8, 10)
   /\ routingHistory["ANALYSIS"].successRate = Fix(9, 10)
   /\ routingHistory["ANALYSIS"].sampleCount = 50
   /\ \A c \in AgentCapability \ {"ANALYSIS"} : routingHistory[c] = initializeRouting[c]
   /\ Len(getEligibleCapabilities(context)) = Len(AgentCapabilityValues))
    => /\ ~IsError(selection)
       /\ selection.capability = "ANALYSIS"

\* C15 happens: the scenario's selection has been made, with the capabilities
\* in the reversed order
C15_Witness ==
  /\ pc = "selected"
  /\ selection.reasoning = "Exploitation"
  /\ context.entropy = Fix(8, 10)
  /\ context.availableAgents[1] = "FAST_TASK"
  /\ routingHistory["ANALYSIS"].successRate = Fix(9, 10)
  /\ routingHistory["ANALYSIS"].sampleCount = 50
  /\ routingHistory["ANALYSIS"].avgTokens = 4000
  /\ \A c \in AgentCapability \ {"ANALYSIS"} : routingHistory[c] = initializeRouting[c]
  /\ Len(getEligibleCapabilities(context)) = Len(AgentCapabilityValues)
  /\ selection.capability = "ANALYSIS"

\* how many tasks of the run ended COMPLETED with capability c
completedStages(c) ==
  Cardinality({i \in 1..Len(agentTasks) :
                 agentTasks[i].capability = c /\ agentTasks[i].status = "COMPLETED"})

\* C11: once execute has resolved, every completed stage has been delivered
\* exactly once through updateFromExecution and exactly once through
\* recordExperience: each capability's sampleCount equals the number of
\* completed stages of that capability, and the Cortex has taken one
\* experience per task on top of the warm-up.
C11_StageOutcomesDelivered ==
  swarmPc = "resolved" =>
    /\ \A c \in AgentCapability : routingHistory[c].sampleCount = completedStages(c)
    /\ calls \in {Len(agentTasks), MaxWarmUp + Len(agentTasks)}

\* the task ids of all batches, in the order of the passes
RECURSIVE Flatten(_)
Flatten(seqs) == IF seqs = << >> THEN << >> ELSE Head(seqs) \o Flatten(Tail(seqs))

\* C19: the recordExperience calls of the task completions of one run are
\* serialized: after every step each recorded experience is in exactly one
\* pass's batch or in the current buffer (the batches followed by the buffer
\* are the experiences in the order they were recorded, none lost, none
\* twice), every batch is the whole buffer of updateFrequency experiences its
\* pass began with, and a completing task adds exactly its own one experience.
C19_CompletionsSerialized ==
  [][/\ Flatten(batches') \o taskIds(experienceBuffer') = [i \in 1..calls' |-> i]
     /\ \A b \in 1..Len(batches') : Len(batches'[b]) = updateFrequency
     /\ (\E i \in 1..MaxStages, outcome \in TaskOutcomes : TaskCompletes(i, outcome))
          => /\ calls' = calls + 1
             /\ IF passes' = passes
                  THEN experienceBuffer'
                         = Append(experienceBuffer, experienceBuffer'[Len(experienceBuffer')])
                  ELSE /\ experienceBuffer' = << >>
                       /\ batches'[passes'] = Append(taskIds(experienceBuffer), calls')]_vars

\* C19 happens: a run of three tasks has resolved, the second completion ran
\* the pass and the third was recorded after it
C19_Witness ==
  /\ swarmPc = "resolved"
  /\ Len(agentTasks) = MaxStages
  /\ passes = 1
  /\ taskIds(experienceBuffer) = <<updateFrequency + 1>>
  /\ agentTasks[1].status = "FAILED"
  /\ agentTasks[2].status = "COMPLETED"

\* C21: immediately after every re-optimization pass each entropy weight lies
\* in its range: length in [0.1, 0.6], keyword in [0.2, 0.6], history in
\* [0.05, 0.4], visual in [0, 0.3].
C21_EntropyWeightsInRange ==
  lastOp = "pass" =>
    /\ N.entropyWeights.length >= Fix(1, 10) /\ N.entropyWeights.length <= Fix(6, 10)
    /\ N.entropyWeights.keyword >= Fix(2, 10) /\ N.entropyWeights.keyword <= Fix(6, 10)
    /\ N.entropyWeights.history >= Fix(5, 100) /\ N.entropyWeights.history <= Fix(4, 10)
    /\ N.entropyWeights.visual >= 0 /\ N.entropyWeights.visual <= Fix(3, 10)

\* C21 happens: a second pass has just run and its clamp has held the visual
\* weight at the lower end of its range
C21_Witness ==
  /\ lastOp = "pass"
  /\ passes = 2
  /\ N.entropyWeights.visual = 0
  /\ N.entropyWeights.length > Fix(35, 100)

\* C22: in every plan planExecution returns, the i-th stage (from 0) has
\* stageId i, stage 0 has no dependencies, and every later stage has exactly
\* one dependency, the id of the stage just before it, which is a stage of
\* the plan; the dependencies form a chain.
C22_DependencyChain ==
  pc = "returned" =>
    \A i \in 1..Len(plan.stages) :
      /\ plan.stages[i].stageId = i - 1
      /\ IF i = 1
           THEN plan.stages[i].dependencies = << >>
           ELSE /\ Len(plan.stages[i].dependencies) = 1
                /\ plan.stages[i].dependencies[1] = toString(plan.stages[i - 1].stageId)
                /\ \A j \in 1..Len(plan.stages) :
                     toString(plan.stages[j].stageId) = plan.stages[i].dependencies[1]
                       => j = i - 1

\* C22 happens: a plan of five stages has been returned
C22_Witness ==
  /\ pc = "returned"
  /\ Len(plan.stages) = STAGE_CAP
  /\ plan.stages[STAGE_CAP].dependencies = <<"3">>

\* the fallback table as documented
documentedFallback ==
  [c \in AgentCapability |->
     IF c = "FAST_TASK" THEN "RESEARCH"
     ELSE IF c = "RESEARCH" THEN "ANALYSIS"
     ELSE IF c = "ANALYSIS" THEN "CODING"
     ELSE "ANALYSIS"]

\* C23: every plan planExecution returns has exactly one fallback strategy per
\* stage, in stage order, with the stage's id and primary capability, the
\* fallback capability of the documented table (never the primary itself) and
\* a retry cap of 2.
C23_FallbackPerStage ==
  pc = "returned" =>
    /\ Len(plan.fallbackStrategies) = Len(plan.stages)
    /\ \A i \in 1..Len(plan.stages) :
         /\ plan.fallbackStrategies[i].stageId = plan.stages[i].stageId
         /\ plan.fallbackStrategies[i].primaryAgent = plan.stages[i].agent.capability
         /\ plan.fallbackStrategies[i].fallbackAgent
              = documentedFallback[plan.stages[i].agent.capability]
         /\ plan.fallbackStrategies[i].fallbackAgent # plan.fallbackStrategies[i].primaryAgent
         /\ plan.fallbackStrategies[i].maxRetries = 2

\* C23 happens: a returned plan of at least three stages, one of them picked
\* by exploration, carries its fallbacks
C23_Witness ==
  /\ pc = "returned"
  /\ Len(plan.fallbackStrategies) >= 3
  /\ \E i \in 1..Len(plan.stages) : plan.stages[i].agent.reasoning = "Exploration"
  /\ \E i \in 1..Len(plan.stages) : plan.fallbackStrategies[i].fallbackAgent = "CODING"

\* a step in which a selectNextAgent call settles: inside planExecution or
\* called directly
SelectionStep ==
  \/ PlanStep /\ pc' = "awaiting"
  \/ \E ctx \in SelectionContexts : SelectNextAgent(ctx)

\* C24: whenever selectNextAgent returns a selection, by exploring or by
\* exploiting, the selected capability is one of context.availableAgents whose
\* avgTokens is strictly below context.budget, the estimatedCost is that
\* avgTokens, and the confidence is 0.5 on the explore branch and the
\* capability's successRate on the exploit branch.
C24_SelectionEligible ==
  [][(pc' \in {"awaiting", "selected"} /\ ~IsError(selection') /\ SelectionStep) =>
       /\ \E i \in 1..Len(context'.availableAgents) :
            context'.availableAgents[i] = selection'.capability
       /\ hasPerformance(selection'.capability)
       /\ routingHistory[selection'.capability].avgTokens < context'.budget
       /\ selection'.estimatedCost = routingHistory[selection'.capability].avgTokens
       /\ selection'.confidence
            = IF selection'.reasoning = "Exploration"
                THEN Fix(5, 10)
                ELSE routingHistory[selection'.capability].successRate]_vars

\* C24 happens: a selection has been returned from a context whose budget
\* leaves out one of the available capabilities
C24_Witness ==
  /\ pc = "awaiting"
  /\ ~IsError(selection)
  /\ Len(executionLog) = 1
  /\ executionLog[1].selection.capability # selection.capability
  /\ routingHistory[executionLog[1].selection.capability].avgTokens >= context.budget
  /\ Len(getEligibleCapabilities(context)) = Len(context.availableAgents) - 1

\* C25: from a fresh Cortex, after N recordExperience calls and no
\* importWeights, exactly floor(N/100) passes have run: updateCount is
\* floor(N/100), confidence is min(0.3 + 0.1 * floor(N/100), 1.0), the buffer
\* holds the last N mod 100 experiences in arrival order, and a pass has just
\* run exactly when N is a positive multiple of 100.
C25_PassEveryHundred ==
  LET done == calls \div updateFrequency
      left == calls % updateFrequency
  IN /\ passes = done
     /\ W.updateCount = done
     /\ W.confidence = Min(Fix(3, 10) + Fix(1, 10) * done, Scale)
     /\ taskIds(experienceBuffer) = [i \in 1..left |-> calls - left + i]
     /\ lastOp = "pass" <=> (calls > 0 /\ left = 0)

\* C25 happens: the eighth pass has run on the 800th call, with the
\* confidence at its cap
C25_Witness ==
  /\ calls = 8 * updateFrequency
  /\ passes = 8
  /\ W.confidence = Scale
  /\ experienceBuffer = << >>

\* the capability-match table as documented: above 0.7, from 0.4 to 0.7
\* inclusive, below 0.4
documentedMatch(capability, entropy) ==
  IF entropy > Fix(7, 10)
    THEN IF capability \in {"ANALYSIS", "CODING"} THEN Scale ELSE Fix(3, 10)
  ELSE IF entropy >= Fix(4, 10)
    THEN IF capability = "RESEARCH" THEN Fix(9, 10)
         ELSE IF capability = "ANALYSIS" THEN Fix(7, 10)
         ELSE Fix(5, 10)
  ELSE IF capability = "FAST_TASK" THEN Scale ELSE Fix(6, 10)

\* C26: for the context of every direct selectNextAgent call, the capability
\* match of each capability is the documented banded table, the band
\* boundaries 0.4 and 0.7 included.
C26_BandedMatch ==
  pc = "selected" =>
    \A c \in AgentCapability :
      computeCapabilityMatch(c, context) = documentedMatch(c, context.entropy)

\* the logged selections tagged as exploration
exploredRecords ==
  Cardinality({i \in 1..Len(executionLog) :
                 executionLog[i].selection.reasoning = "Exploration"})

\* C27: in every orchestrator state getRoutingAnalytics().totalExecutions is
\* the sum of the five sampleCounts, and explorationRate is 0 without records
\* and otherwise the share of the records tagged Exploration, within [0, 1].
C27_AnalyticsCounts ==
  /\ getRoutingAnalytics.totalExecutions
       = SeqSum([i \in 1..Len(AgentCapabilityValues) |->
                   routingHistory[AgentCapabilityValues[i]].sampleCount])
  /\ getRoutingAnalytics.explorationRate >= 0
  /\ getRoutingAnalytics.explorationRate <= Scale
  /\ IF getRoutingAnalytics.totalExecutions = 0
       THEN getRoutingAnalytics.explorationRate = 0
       ELSE /\ getRoutingAnalytics.explorationRate * getRoutingAnalytics.totalExecutions
                 <= exploredRecords * Scale
            /\ (getRoutingAnalytics.explorationRate + 1) * getRoutingAnalytics.totalExecutions
                 > exploredRecords * Scale

\* C27 happens: three reports have been logged, one of them of an explored
\* selection, for two capabilities
C27_Witness ==
  /\ Len(executionLog) = MaxLogged
  /\ exploredRecords = 1
  /\ routingHistory["CODING"].sampleCount = 2
  /\ routingHistory["ANALYSIS"].sampleCount = 1

\* C28: every plan planExecution returns for a positive budget has an
\* estimatedCost that is the sum of its stages' estimatedCost and is strictly
\* below the budget argument, whatever updateFromExecution calls ran between
\* the selections of the planning loop.
C28_CostIsSumBelowBudget ==
  (pc = "returned" /\ budget > 0) =>
    /\ plan.estimatedCost
         = SeqSum([i \in 1..Len(plan.stages) |-> plan.stages[i].agent.estimatedCost])
    /\ plan.estimatedCost < budget

\* C28 happens: a returned plan holds two stages of one capability with
\* different costs, an updateFromExecution for it having run between the two
\* selections
C28_Witness ==
  /\ pc = "returned"
  /\ Len(executionLog) = 1
  /\ \E i, j \in 1..Len(plan.stages) :
        /\ i < j
        /\ plan.stages[i].agent.capability = plan.stages[j].agent.capability
        /\ plan.stages[i].agent.capability = executionLog[1].selection.capability
        /\ plan.stages[i].agent.estimatedCost # plan.stages[j].agent.estimatedCost

\* C29: once a second instance B has imported A's exported weights, no
\* recordExperience call on A, a re-optimization pass included, changes the
\* values of the exported object B holds or any output of B.predictBudget,
\* B.predictSuccess or B.getTemperature.
C29_PeerOwnsItsWeights ==
  [][(peerWeights # 0 /\ \E e \in ExperienceInputs : RecordExperience(e)) =>
       /\ NestedOf(peerWeights)' = NestedOf(peerWeights)
       /\ \A c \in AgentCapability :
            /\ getTemperatureOf(peerWeights, c)' = getTemperatureOf(peerWeights, c)
            /\ \A e \in Entropies :
                 /\ predictSuccessOf(peerWeights, e, c)' = predictSuccessOf(peerWeights, e, c)
                 /\ \A v \in BOOLEAN :
                      predictBudgetOf(peerWeights, e, c, v)'
                        = predictBudgetOf(peerWeights, e, c, v)]_vars

\* C30: while execute runs a plan, a task whose stage lists a dependency is
\* WORKING only when the task of every stage it depends on has reached a
\* final status (COMPLETED, HEALING or FAILED).
C30_DependenciesRunFirst ==
  \A i \in 1..Len(agentTasks) :
    agentTasks[i].status = "WORKING" =>
      \A d \in 1..Len(agentTasks[i].dependencies) :
        \A j \in 1..Len(agentTasks) :
          toString(agentTasks[j].stageId) = agentTasks[i].dependencies[d] =>
            agentTasks[j].status \in TaskOutcomes

====
